---- MODULE Spec2Model ----
(***************************************************************************)
(* Model of the pre-transaction risk check of lipaworld-orca:              *)
(*   routes/pre.ts      POST /transaction/check, performInternalChecks,    *)
(*                      combineRiskAssessments                             *)
(*   services/orcaService.ts   testConnection, checkTransaction            *)
(*   config/config.ts   limits                                             *)
(***************************************************************************)
EXTENDS Integers, Sequences, FiniteSets, TLC

VARIABLES
    pc,            \* position of the POST /transaction/check handler
    req,           \* req.body of the request being handled
    internalCheck, \* result of performInternalChecks (pre.ts:200)
    orcaReply,     \* what the provider did with POST /v1/transaction (orcaService.ts:162)
    orcaResult,    \* result of orcaService.checkTransaction (pre.ts:210)
    res,           \* the HTTP response written by the handler
    providerCalls, \* number of requests sent to the provider while handling req
    cpc,           \* position of the direct application of combineRiskAssessments
    cInternal,     \* first argument of combineRiskAssessments
    cOrca,         \* second argument of combineRiskAssessments
    cOut,          \* combineRiskAssessments(cInternal, cOrca)
    cSwapped,      \* combineRiskAssessments(cOrca, cInternal)
    userTransactionCache, \* pre.ts:11, user id -> recorded transactions
    now,           \* Date.now(), in ticks
    lpc,           \* position of the POST /limits/check handler
    limitsData,    \* req.body of the last POST /limits/check
    limitsRes,     \* the response to the last POST /limits/check
    rpc,           \* position of the POST /transaction/report handler
    reportData,    \* req.body of the POST /transaction/report being handled
    reportRes,     \* status code of the response to that report
    completed,     \* history: the reports with finalStatus COMPLETED answered with success
    completedAtCheck, \* history: Len(completed) when the last limits check was answered
    storeFault     \* history: the last limits check could not read the store

vars == <<pc, req, internalCheck, orcaReply, orcaResult, res, providerCalls,
          cpc, cInternal, cOrca, cOut, cSwapped,
          userTransactionCache, now, lpc, limitsData, limitsRes,
          rpc, reportData, reportRes, completed, completedAtCheck, storeFault>>

limitsVars == <<userTransactionCache, now, lpc, limitsData, limitsRes,
                rpc, reportData, reportRes, completed, completedAtCheck, storeFault>>

handlerVars == <<pc, req, internalCheck, orcaReply, orcaResult, res, providerCalls>>
combineVars == <<cpc, cInternal, cOrca, cOut, cSwapped>>

----------------------------------------------------------------------------
(* Bounds of the model *)

MaxTriggered == 2   \* longest `triggered` list in a provider payload
MaxReasons == 2     \* longest reasons list of a verdict handed to the combiner directly
TicksPerDay == 2    \* clock ticks in one day
MaxTime == 4        \* last clock tick
MaxCached == 11     \* most entries of the current day in a user's recorded transactions
MaxCompleted == 2   \* most completed-transaction reports in one behaviour

----------------------------------------------------------------------------
(* Program constants *)

singleTransactionLimit == 50000
voucherReviewLimit == 10000
usdReviewLimit == 2000

\* a property that is absent from a JavaScript object
Undefined == "undefined"

\* the empty verdict, before a step has produced one
NoVerdict == [status |-> Undefined, decision |-> Undefined, action |-> Undefined,
              riskScore |-> 0, riskLevel |-> Undefined, reasons |-> <<>>,
              checkId |-> Undefined, internalCheckId |-> Undefined]

NoRequest == [transactionId |-> "", userId |-> "", hasAmount |-> FALSE, amount |-> 0,
              provider |-> Undefined, currencyCode |-> Undefined]

NoReply == [outcome |-> "none", body |-> "null", recommendedAction |-> Undefined,
            triggeredKind |-> "falsy", triggered |-> <<>>, hasId |-> FALSE,
            hasRiskScore |-> FALSE, riskScore |-> 0]

NoResponse == [code |-> 0, status |-> Undefined, error |-> Undefined, data |-> NoVerdict]

----------------------------------------------------------------------------
(* Reason texts of the source *)

AmountReason == "Amount exceeds single transaction limit"
VoucherReason == "High-value voucher purchase requires review"
UsdReason == "High USD transaction requires review"
FallbackReason == "Orca service error - defaulting to allow"
GenericRuleReason == "Risk rule triggered"

----------------------------------------------------------------------------
(* Local rule evaluator: performInternalChecks, pre.ts:370-401 *)

\* transaction.amount > limit; a comparison with a missing amount is false
amountExceeds(transaction, limit) ==
    transaction.hasAmount /\ transaction.amount > limit

\* pre.ts:371-372: const reasons = [], let decision = 'ALLOW'
initialChecks == [decision |-> "ALLOW", reasons |-> <<>>]

\* variant: the ceiling itself already blocks
amountCheckInclusive(transaction, running) ==
    IF transaction.hasAmount /\ transaction.amount >= singleTransactionLimit
    THEN [decision |-> "BLOCK", reasons |-> Append(running.reasons, AmountReason)]
    ELSE running

\* pre.ts:375-378
amountCheck(transaction, running) ==
    IF amountExceeds(transaction, singleTransactionLimit)
    THEN [decision |-> "BLOCK", reasons |-> Append(running.reasons, AmountReason)]
    ELSE running

\* pre.ts:381-384
providerCheck(transaction, running) ==
    IF transaction.provider = "voucher" /\ amountExceeds(transaction, voucherReviewLimit)
    THEN [decision |-> "REVIEW", reasons |-> Append(running.reasons, VoucherReason)]
    ELSE running

\* pre.ts:387-390
currencyCheck(transaction, running) ==
    IF transaction.currencyCode = "USD" /\ amountExceeds(transaction, usdReviewLimit)
    THEN [decision |-> "REVIEW", reasons |-> Append(running.reasons, UsdReason)]
    ELSE running

afterAmountCheck(transaction) == amountCheck(transaction, initialChecks)
afterProviderCheck(transaction) == providerCheck(transaction, afterAmountCheck(transaction))
afterCurrencyCheck(transaction) == currencyCheck(transaction, afterProviderCheck(transaction))

\* variant: BLOCK scored below the provider's BLOCK score
internalRiskScoreLowBlock(decision) ==
    IF decision = "BLOCK" THEN 90 ELSE IF decision = "REVIEW" THEN 75 ELSE 25

\* pre.ts:395
internalRiskScore(decision) ==
    IF decision = "BLOCK" THEN 100 ELSE IF decision = "REVIEW" THEN 75 ELSE 25

\* variant: a REVIEW ranked as high risk
internalRiskLevelReviewHigh(decision) ==
    IF decision = "ALLOW" THEN "LOW" ELSE "HIGH"

\* pre.ts:396
internalRiskLevel(decision) ==
    IF decision = "BLOCK" THEN "HIGH" ELSE IF decision = "REVIEW" THEN "MEDIUM" ELSE "LOW"

performInternalChecks(transaction) ==
    LET final == afterCurrencyCheck(transaction) IN
    [status |-> "SUCCESS",
     decision |-> final.decision,
     action |-> Undefined,
     riskScore |-> internalRiskScore(final.decision),
     riskLevel |-> internalRiskLevel(final.decision),
     reasons |-> final.reasons,
     checkId |-> "internal",
     internalCheckId |-> Undefined]

----------------------------------------------------------------------------
(* Provider response normalizer: OrcaService.checkTransaction,            *)
(* orcaService.ts:159-229                                                 *)

\* orcaService.ts:339-343
determineRiskLevel(riskScore) ==
    IF riskScore >= 80 THEN "HIGH" ELSE IF riskScore >= 50 THEN "MEDIUM" ELSE "LOW"

\* orcaData.recommendedAction: undefined when the body is not an object with that field
recommendedActionOf(reply) ==
    IF reply.body = "object" THEN reply.recommendedAction ELSE Undefined

\* variant: the action tags compared without regard to case
mapActionIgnoreCase(recommendedAction) ==
    CASE recommendedAction \in {"ALLOW", "Allow", "allow"} -> [action |-> "ALLOW", riskScore |-> 10]
      [] recommendedAction \in {"REVIEW", "Review", "review"} -> [action |-> "REVIEW", riskScore |-> 60]
      [] recommendedAction \in {"BLOCK", "Block", "block"} -> [action |-> "BLOCK", riskScore |-> 95]
      [] OTHER -> [action |-> "ALLOW", riskScore |-> 0]

\* variant: REVIEW scored below the MEDIUM threshold
mapActionReviewLow(recommendedAction) ==
    CASE recommendedAction = "ALLOW" -> [action |-> "ALLOW", riskScore |-> 10]
      [] recommendedAction = "REVIEW" -> [action |-> "REVIEW", riskScore |-> 40]
      [] recommendedAction = "BLOCK" -> [action |-> "BLOCK", riskScore |-> 95]
      [] OTHER -> [action |-> "ALLOW", riskScore |-> 0]

\* orcaService.ts:176-192, the switch compares with ===
mapAction(recommendedAction) ==
    CASE recommendedAction = "ALLOW" -> [action |-> "ALLOW", riskScore |-> 10]
      [] recommendedAction = "REVIEW" -> [action |-> "REVIEW", riskScore |-> 60]
      [] recommendedAction = "BLOCK" -> [action |-> "BLOCK", riskScore |-> 95]
      [] OTHER -> [action |-> "ALLOW", riskScore |-> 0]

\* orcaService.ts:196, for an entry that is not null
ruleReason(rule) ==
    IF rule.kind = "string" THEN rule.text
    ELSE IF rule.description # "" THEN rule.description
    ELSE IF rule.name # "" THEN rule.name
    ELSE GenericRuleReason

\* the try block of checkTransaction throws (orcaService.ts:160-208):
\* the POST rejects, response.data is null, triggered is truthy without a map
\* method, or an entry of triggered is null
checkThrows(reply) ==
    \/ reply.outcome \in {"error", "timeout"}
    \/ reply.body = "null"
    \/ reply.body = "object" /\ reply.triggeredKind = "truthyNonList"
    \/ reply.body = "object" /\ reply.triggeredKind = "list"
         /\ \E i \in 1..Len(reply.triggered) : reply.triggered[i].kind = "null"

\* orcaService.ts:195-197
triggeredReasons(reply) ==
    IF reply.body = "object" /\ reply.triggeredKind = "list"
    THEN [i \in 1..Len(reply.triggered) |-> ruleReason(reply.triggered[i])]
    ELSE <<>>

\* variant: failing closed on a provider error
fallbackResultFailClosed ==
    [status |-> "ERROR",
     decision |-> Undefined,
     action |-> "BLOCK",
     riskScore |-> 100,
     riskLevel |-> "HIGH",
     reasons |-> <<FallbackReason>>,
     checkId |-> "fallback",
     internalCheckId |-> Undefined]

\* variant: a provider failure scored as medium risk
fallbackResultScored ==
    [status |-> "ERROR",
     decision |-> Undefined,
     action |-> "ALLOW",
     riskScore |-> 50,
     riskLevel |-> "MEDIUM",
     reasons |-> <<FallbackReason>>,
     checkId |-> "fallback",
     internalCheckId |-> Undefined]

\* orcaService.ts:219-227
fallbackResult ==
    [status |-> "ERROR",
     decision |-> Undefined,
     action |-> "ALLOW",
     riskScore |-> 0,
     riskLevel |-> "LOW",
     reasons |-> <<FallbackReason>>,
     checkId |-> "fallback",
     internalCheckId |-> Undefined]

\* variant: the provider's numeric riskScore is used when the payload has one
normalizedResultPayloadScore(reply) ==
    LET mapped == mapAction(recommendedActionOf(reply)) IN
    LET score == IF reply.body = "object" /\ reply.hasRiskScore
                 THEN reply.riskScore ELSE mapped.riskScore IN
    [status |-> "SUCCESS",
     decision |-> Undefined,
     action |-> mapped.action,
     riskScore |-> score,
     riskLevel |-> determineRiskLevel(score),
     reasons |-> triggeredReasons(reply),
     checkId |-> IF reply.body = "object" /\ reply.hasId THEN "orca" ELSE "check",
     internalCheckId |-> Undefined]

\* orcaService.ts:199-208
normalizedResult(reply) ==
    LET mapped == mapAction(recommendedActionOf(reply)) IN
    [status |-> "SUCCESS",
     decision |-> Undefined,
     action |-> mapped.action,
     riskScore |-> mapped.riskScore,
     riskLevel |-> determineRiskLevel(mapped.riskScore),
     reasons |-> triggeredReasons(reply),
     checkId |-> IF reply.body = "object" /\ reply.hasId THEN "orca" ELSE "check",
     internalCheckId |-> Undefined]

\* the object checkTransaction returns (orcaService.ts:199-208), read as a
\* provider payload: it has action, riskScore, riskLevel, reasons, checkId, and
\* no recommendedAction, triggered or id
verdictAsReply(verdict) ==
    [outcome |-> "response", body |-> "object", recommendedAction |-> Undefined,
     triggeredKind |-> "falsy", triggered |-> <<>>, hasId |-> FALSE,
     hasRiskScore |-> TRUE, riskScore |-> verdict.riskScore]

\* an exception leaving a call instead of a verdict
thrown == [NoVerdict EXCEPT !.status = "THROWN"]

\* variant: the catch block rethrows, as in onboardUser
checkTransactionRethrows(reply) ==
    IF checkThrows(reply) THEN thrown ELSE normalizedResult(reply)

checkTransaction(reply) ==
    IF checkThrows(reply) THEN fallbackResult ELSE normalizedResult(reply)

----------------------------------------------------------------------------
(* Decision combiner: combineRiskAssessments, pre.ts:403-422 *)

\* pre.ts:405-407: ['ALLOW', 'REVIEW', 'BLOCK'].indexOf(x), -1 when x is not in the list
actionIndex(x) ==
    CASE x = "ALLOW" -> 0
      [] x = "REVIEW" -> 1
      [] x = "BLOCK" -> 2
      [] OTHER -> -1

\* pre.ts:409: actions[i], undefined when i is -1
actionAt(i) ==
    CASE i = 0 -> "ALLOW"
      [] i = 1 -> "REVIEW"
      [] i = 2 -> "BLOCK"
      [] OTHER -> Undefined

\* variant: the smaller of two numbers
mathMaxAsMin(a, b) == IF a <= b THEN a ELSE b

\* Math.max of two numbers
mathMax(a, b) == IF a >= b THEN a ELSE b

\* variant: strict comparisons at the thresholds
combinedRiskLevelStrict(maxRiskScore) ==
    IF maxRiskScore > 80 THEN "HIGH" ELSE IF maxRiskScore > 50 THEN "MEDIUM" ELSE "LOW"

\* pre.ts:415
combinedRiskLevel(maxRiskScore) ==
    IF maxRiskScore >= 80 THEN "HIGH" ELSE IF maxRiskScore >= 50 THEN "MEDIUM" ELSE "LOW"

\* variant: provider reasons first
combinedReasonsOrcaFirst(internal, orca) == orca.reasons \o internal.reasons

\* pre.ts:416
combinedReasons(internal, orca) == internal.reasons \o orca.reasons

\* variant: the provider's action alone decides
finalActionOrcaOnly(internal, orca) == actionAt(actionIndex(orca.action))

\* pre.ts:409
finalAction(internal, orca) ==
    actionAt(mathMax(actionIndex(internal.decision), actionIndex(orca.action)))

combineRiskAssessments(internal, orca) ==
    LET maxRiskScore == mathMax(internal.riskScore, orca.riskScore) IN
    [status |-> Undefined,
     decision |-> finalAction(internal, orca),
     action |-> Undefined,
     riskScore |-> maxRiskScore,
     riskLevel |-> combinedRiskLevel(maxRiskScore),
     reasons |-> combinedReasons(internal, orca),
     checkId |-> orca.checkId,
     internalCheckId |-> internal.checkId]


----------------------------------------------------------------------------
(* Limits tracker: checkTransactionLimits, pre.ts:424-455, and its store *)

dailyTransactionLimit == 100000
hourlyTransactionCount == 10

Users == {"u1", "u2"}

\* pre.ts:11: new Map()
emptyCache == [u \in Users |-> <<>>]

NoLimitsRequest == [userId |-> "", hasAmount |-> FALSE, amount |-> 0]

NoLimitsResponse ==
    [code |-> 0, error |-> Undefined, withinLimits |-> FALSE, dailyLimit |-> 0,
     dailyUsed |-> 0, dailyRemaining |-> 0, transactionLimit |-> 0,
     transactionCount |-> 0, transactionCountLimit |-> 0, decision |-> Undefined,
     timestamp |-> 0]

NoReport == [transactionId |-> "", checkId |-> "", finalStatus |-> "", actualAmount |-> 0]

\* the limits and report handlers are not running
limitsOff ==
    /\ userTransactionCache = emptyCache
    /\ now = 0
    /\ lpc = "off"
    /\ limitsData = NoLimitsRequest
    /\ limitsRes = NoLimitsResponse
    /\ rpc = "off"
    /\ reportData = NoReport
    /\ reportRes = 0
    /\ completed = <<>>
    /\ completedAtCheck = 0
    /\ storeFault = FALSE

\* pre.ts:428-429: today.setHours(0, 0, 0, 0)
startOfDay(at) == at - (at % TicksPerDay)

\* pre.ts:426: userTransactionCache.get(userId) || []
userTransactionsOf(cache, userId) ==
    IF userId \in DOMAIN cache THEN cache[userId] ELSE <<>>

\* pre.ts:431-433
isToday(tx, at) == tx.timestamp >= startOfDay(at)

dailyTransactionsOf(cache, userId, at) ==
    SelectSeq(userTransactionsOf(cache, userId), LAMBDA tx : isToday(tx, at))

\* pre.ts:435: reduce((sum, tx) => sum + tx.amount, 0)
RECURSIVE sumAmounts(_)
sumAmounts(transactions) ==
    IF transactions = <<>> THEN 0
    ELSE sumAmounts(SubSeq(transactions, 1, Len(transactions) - 1))
         + transactions[Len(transactions)].amount

\* variant: the count ceiling itself is still allowed
withinLimitsCountInclusive(newDailyAmount, count, amount) ==
    /\ newDailyAmount <= dailyTransactionLimit
    /\ count <= hourlyTransactionCount
    /\ amount <= singleTransactionLimit

\* pre.ts:438-440
withinLimitsOf(newDailyAmount, count, amount) ==
    /\ newDailyAmount <= dailyTransactionLimit
    /\ count < hourlyTransactionCount
    /\ amount <= singleTransactionLimit

\* variant: a breach sent to review
limitsDecisionReview(withinLimits) == IF withinLimits THEN "ALLOW" ELSE "REVIEW"

\* pre.ts:452
limitsDecision(withinLimits) == IF withinLimits THEN "ALLOW" ELSE "BLOCK"

checkTransactionLimits(cache, data, at) ==
    LET dailyTransactions == dailyTransactionsOf(cache, data.userId, at)
        dailyAmount == sumAmounts(dailyTransactions)
        newDailyAmount == dailyAmount + data.amount
        withinLimits == withinLimitsOf(newDailyAmount, Len(dailyTransactions), data.amount)
    IN  [code |-> 200,
         error |-> Undefined,
         withinLimits |-> withinLimits,
         dailyLimit |-> dailyTransactionLimit,
         dailyUsed |-> dailyAmount,
         dailyRemaining |-> dailyTransactionLimit - dailyAmount,
         transactionLimit |-> singleTransactionLimit,
         transactionCount |-> Len(dailyTransactions),
         transactionCountLimit |-> hourlyTransactionCount,
         decision |-> limitsDecision(withinLimits),
         timestamp |-> at]

----------------------------------------------------------------------------
(* Inputs *)

Amounts == {-1, 1000, usdReviewLimit, usdReviewLimit + 1,
            voucherReviewLimit, voucherReviewLimit + 1,
            singleTransactionLimit, singleTransactionLimit + 1, 60000}

\* req.body of POST /transaction/check; a missing amount and amount 0 are both falsy
Requests ==
    { [transactionId |-> t, userId |-> u, hasAmount |-> h, amount |-> a,
       provider |-> p, currencyCode |-> c] :
        t \in {"", "txn_1"}, u \in {"", "user_1"}, h \in BOOLEAN,
        a \in Amounts \cup {0}, p \in {"voucher", "mpesa", Undefined},
        c \in {"USD", "KES"} }

RequestBodies == { r \in Requests : r.hasAmount \/ r.amount = 0 }

\* entries of the provider's `triggered` list
TriggeredEntries ==
    { [kind |-> "string", text |-> "velocity", description |-> "", name |-> ""],
      [kind |-> "object", text |-> "", description |-> "service unavailable", name |-> "R7"],
      [kind |-> "object", text |-> "", description |-> "", name |-> "R7"],
      [kind |-> "object", text |-> "", description |-> "", name |-> ""],
      [kind |-> "null", text |-> "", description |-> "", name |-> ""] }

RECURSIVE SeqsUpTo(_, _)
SeqsUpTo(S, n) ==
    IF n = 0 THEN {<<>>}
    ELSE LET shorter == SeqsUpTo(S, n - 1) IN
         shorter \cup { Append(q, x) : q \in shorter, x \in S }

RecommendedActions == {"ALLOW", "REVIEW", "BLOCK", "allow", "Block", "DENY", Undefined}

\* a numeric riskScore in the provider's payload: absent, or present with a value
PayloadScores == { [has |-> FALSE, score |-> 0], [has |-> TRUE, score |-> 99] }

\* what POST /v1/transaction can come back with
OrcaReplies ==
    { [NoReply EXCEPT !.outcome = o] : o \in {"error", "timeout"} }
    \cup { [NoReply EXCEPT !.outcome = "response", !.body = b] : b \in {"null", "text"} }
    \cup { [outcome |-> "response", body |-> "object", recommendedAction |-> a,
            triggeredKind |-> k, triggered |-> <<>>, hasId |-> i,
            hasRiskScore |-> n.has, riskScore |-> n.score] :
             a \in RecommendedActions, k \in {"falsy", "truthyNonList"}, i \in BOOLEAN,
             n \in PayloadScores }
    \cup { [outcome |-> "response", body |-> "object", recommendedAction |-> a,
            triggeredKind |-> "list", triggered |-> t, hasId |-> i,
            hasRiskScore |-> n.has, riskScore |-> n.score] :
             a \in RecommendedActions, t \in SeqsUpTo(TriggeredEntries, MaxTriggered),
             i \in BOOLEAN, n \in PayloadScores }

----------------------------------------------------------------------------
(* POST /transaction/check, pre.ts:179-232 *)

\* variant: only the two ids are required
invalidRequestIdsOnly(transactionData) ==
    \/ transactionData.transactionId = ""
    \/ transactionData.userId = ""

\* pre.ts:188
invalidRequest(transactionData) ==
    \/ transactionData.transactionId = ""
    \/ transactionData.userId = ""
    \/ ~transactionData.hasAmount
    \/ transactionData.amount = 0

\* pre.ts:189-196
invalidResponse ==
    [code |-> 400, status |-> "ERROR", error |-> "INVALID_REQUEST", data |-> NoVerdict]

\* pre.ts:202-206 and pre.ts:215-219
successResponse(data) ==
    [code |-> 200, status |-> "SUCCESS", error |-> Undefined, data |-> data]

\* pre.ts:221-231, the handler's catch
errorResponse ==
    [code |-> 500, status |-> "ERROR", error |-> "TRANSACTION_CHECK_ERROR", data |-> NoVerdict]

Init ==
    /\ pc = "idle"
    /\ req = NoRequest
    /\ internalCheck = NoVerdict
    /\ orcaReply = NoReply
    /\ orcaResult = NoVerdict
    /\ res = NoResponse
    /\ providerCalls = 0
    /\ cpc = "off"
    /\ cInternal = NoVerdict
    /\ cOrca = NoVerdict
    /\ cOut = NoVerdict
    /\ cSwapped = NoVerdict
    /\ limitsOff

\* a request arrives; the handler awaits testConnection, which sends its first
\* probe (pre.ts:182, orcaService.ts:89)
ReceiveRequest ==
    /\ pc = "idle"
    /\ \E body \in RequestBodies : req' = body
    /\ pc' = "testTransaction"
    /\ providerCalls' = 1
    /\ UNCHANGED <<internalCheck, orcaReply, orcaResult, res>>
    /\ UNCHANGED combineVars
    /\ UNCHANGED limitsVars

\* the handler after testConnection has returned, up to its next await or its
\* response (pre.ts:184-210); `calls` is the number of provider requests so far
afterTestConnection(calls) ==
    IF invalidRequest(req)
    THEN /\ res' = invalidResponse
         /\ pc' = "done"
         /\ providerCalls' = calls
         /\ UNCHANGED internalCheck
    ELSE /\ internalCheck' = performInternalChecks(req)
         /\ IF internalCheck'.decision = "BLOCK"
            THEN /\ res' = successResponse(internalCheck')
                 /\ pc' = "done"
                 /\ providerCalls' = calls
            ELSE /\ pc' = "checkTransaction"
                 /\ providerCalls' = calls + 1
                 /\ UNCHANGED res

\* orcaService.ts:89-91 and 93-113
TestTransactionReplies ==
    /\ pc = "testTransaction"
    /\ \E ok \in BOOLEAN :
         IF ok THEN afterTestConnection(providerCalls)
         ELSE /\ pc' = "testUser"
              /\ providerCalls' = providerCalls + 1
              /\ UNCHANGED <<internalCheck, res>>
    /\ UNCHANGED <<req, orcaReply, orcaResult>>
    /\ UNCHANGED combineVars
    /\ UNCHANGED limitsVars

\* orcaService.ts:113-115 and 117-124
TestUserReplies ==
    /\ pc = "testUser"
    /\ \E ok \in BOOLEAN :
         IF ok THEN afterTestConnection(providerCalls)
         ELSE /\ pc' = "testRules"
              /\ providerCalls' = providerCalls + 1
              /\ UNCHANGED <<internalCheck, res>>
    /\ UNCHANGED <<req, orcaReply, orcaResult>>
    /\ UNCHANGED combineVars
    /\ UNCHANGED limitsVars

\* variant: the handler gives up when every probe of testConnection has failed
TestRulesRepliesGated ==
    /\ pc = "testRules"
    /\ \E ok \in BOOLEAN :
         IF ok THEN afterTestConnection(providerCalls)
         ELSE /\ res' = errorResponse
              /\ pc' = "done"
              /\ UNCHANGED <<internalCheck, providerCalls>>
    /\ UNCHANGED <<req, orcaReply, orcaResult>>
    /\ UNCHANGED combineVars
    /\ UNCHANGED limitsVars

\* orcaService.ts:124-131: testConnection returns true or false, the handler
\* ignores which
TestRulesReplies ==
    /\ pc = "testRules"
    /\ afterTestConnection(providerCalls)
    /\ UNCHANGED <<req, orcaReply, orcaResult>>
    /\ UNCHANGED combineVars
    /\ UNCHANGED limitsVars

\* POST /v1/transaction settles: checkTransaction returns, the handler combines
\* and answers (orcaService.ts:162-228, pre.ts:210-219)
CheckTransactionSettles ==
    /\ pc = "checkTransaction"
    /\ \E reply \in OrcaReplies :
         /\ orcaReply' = reply
         /\ orcaResult' = checkTransaction(reply)
    /\ res' = IF orcaResult'.status = "THROWN"
              THEN errorResponse
              ELSE successResponse(combineRiskAssessments(internalCheck, orcaResult'))
    /\ pc' = "done"
    /\ UNCHANGED <<req, internalCheck, providerCalls>>
    /\ UNCHANGED combineVars
    /\ UNCHANGED limitsVars

\* the response has been sent; the server waits for the next request
NextRequest ==
    /\ pc = "done"
    /\ pc' = "idle"
    /\ req' = NoRequest
    /\ internalCheck' = NoVerdict
    /\ orcaReply' = NoReply
    /\ orcaResult' = NoVerdict
    /\ res' = NoResponse
    /\ providerCalls' = 0
    /\ UNCHANGED combineVars
    /\ UNCHANGED limitsVars

Next ==
    \/ ReceiveRequest
    \/ TestTransactionReplies
    \/ TestUserReplies
    \/ TestRulesReplies
    \/ CheckTransactionSettles
    \/ NextRequest

Spec == Init /\ [][Next]_vars

\* the provider call settles with a reply of at most one triggered rule: every
\* way the call can end, every action tag, every shape of the triggered field
CheckTransactionSettlesShortly ==
    /\ CheckTransactionSettles
    /\ Len(orcaReply'.triggered) <= 1

NextSettling ==
    \/ ReceiveRequest
    \/ TestTransactionReplies
    \/ TestUserReplies
    \/ TestRulesReplies
    \/ CheckTransactionSettlesShortly
    \/ NextRequest

\* every request the service sends to the provider settles: the axios client
\* has a timeout (orcaService.ts:20), so each await of the handler returns
Settles ==
    /\ WF_vars(TestTransactionReplies)
    /\ WF_vars(TestUserReplies)
    /\ WF_vars(TestRulesReplies)
    /\ WF_vars(CheckTransactionSettlesShortly)

SpecSettling == Init /\ [][NextSettling]_vars /\ Settles


----------------------------------------------------------------------------
(* combineRiskAssessments applied to arbitrary verdicts *)

Decisions == {"ALLOW", "REVIEW", "BLOCK"}
RiskLevels == {"LOW", "MEDIUM", "HIGH"}
RiskScores == {0, 25, 49, 50, 79, 80, 100}
ReasonLists == SeqsUpTo({AmountReason, "velocity"}, MaxReasons)

\* verdicts of the shape performInternalChecks returns: the decision is in `decision`
InternalVerdicts ==
    { [NoVerdict EXCEPT !.status = "SUCCESS", !.decision = d, !.riskScore = n,
                        !.riskLevel = l, !.reasons = r, !.checkId = "internal"] :
        d \in Decisions, n \in RiskScores, l \in RiskLevels, r \in ReasonLists }

\* verdicts of the shape checkTransaction returns: the decision is in `action`
OrcaVerdicts ==
    { [NoVerdict EXCEPT !.status = "SUCCESS", !.action = d, !.riskScore = n,
                        !.riskLevel = l, !.reasons = r, !.checkId = "check"] :
        d \in Decisions, n \in RiskScores, l \in RiskLevels, r \in ReasonLists }

InitCombine ==
    /\ pc = "off"
    /\ req = NoRequest
    /\ internalCheck = NoVerdict
    /\ orcaReply = NoReply
    /\ orcaResult = NoVerdict
    /\ res = NoResponse
    /\ providerCalls = 0
    /\ cpc = "ready"
    /\ cInternal \in InternalVerdicts
    /\ cOrca \in OrcaVerdicts
    /\ cOut = NoVerdict
    /\ cSwapped = NoVerdict
    /\ limitsOff

\* both argument orders of combineRiskAssessments
ApplyCombine ==
    /\ cpc = "ready"
    /\ cOut' = combineRiskAssessments(cInternal, cOrca)
    /\ cSwapped' = combineRiskAssessments(cOrca, cInternal)
    /\ cpc' = "done"
    /\ UNCHANGED <<cInternal, cOrca>>
    /\ UNCHANGED handlerVars
    /\ UNCHANGED limitsVars

NextCombine == ApplyCombine

SpecCombine == InitCombine /\ [][NextCombine]_vars

----------------------------------------------------------------------------
(* POST /limits/check, pre.ts:334-368, over recorded transactions of any shape *)

LimitsAmounts == {-1, 0, 1000, 25000, 50000, 50001, 60000}

LimitsBodies ==
    { [userId |-> u, hasAmount |-> TRUE, amount |-> a] :
        u \in Users \cup {""}, a \in LimitsAmounts }
    \cup { [userId |-> u, hasAmount |-> FALSE, amount |-> 0] : u \in Users \cup {""} }

CachedAmounts == {1000, 25000, 50000}

\* an entry recorded on the day before the one the clock starts in
OldEntries == { [timestamp |-> TicksPerDay - 1, amount |-> 60000] }

\* k entries recorded at the first tick of the day the clock starts in
todayEntries(k, a) == [i \in 1..k |-> [timestamp |-> TicksPerDay, amount |-> a]]

CachedLists ==
    { pre \o todayEntries(k, a) \o post :
        pre \in SeqsUpTo(OldEntries, 1), post \in SeqsUpTo(OldEntries, 1),
        k \in 0..MaxCached, a \in CachedAmounts }

Caches ==
    { [u \in Users |-> IF u = "u1" THEN mine ELSE other] :
        mine \in CachedLists, other \in {<<>>, todayEntries(1, 50000)} }

\* pre.ts:338: !limitsData.userId || !limitsData.amount
invalidLimitsRequest(data) == data.userId = "" \/ ~data.hasAmount \/ data.amount = 0

\* pre.ts:339-347
invalidLimitsResponse == [NoLimitsResponse EXCEPT !.code = 400, !.error = "INVALID_REQUEST"]

\* pre.ts:357-366
limitsErrorResponse == [NoLimitsResponse EXCEPT !.code = 500, !.error = "LIMITS_CHECK_ERROR"]

\* the handler's answer, pre.ts:336-355
answerLimitsCheck(data) ==
    /\ lpc \in {"idle", "answered"}
    /\ lpc' = "answered"
    /\ limitsData' = data
    /\ limitsRes' = IF invalidLimitsRequest(data)
                      THEN invalidLimitsResponse
                      ELSE checkTransactionLimits(userTransactionCache, data, now)
    /\ completedAtCheck' = Len(completed)
    /\ storeFault' = FALSE
    /\ UNCHANGED <<now, rpc, reportData, reportRes, completed>>
    /\ UNCHANGED handlerVars
    /\ UNCHANGED combineVars

\* variant: an admitted check is recorded at once
LimitsCheckRecording ==
    \E data \in LimitsBodies :
        /\ answerLimitsCheck(data)
        /\ userTransactionCache' =
             IF ~invalidLimitsRequest(data) /\ limitsRes'.withinLimits
               THEN [userTransactionCache EXCEPT
                       ![data.userId] = Append(@, [timestamp |-> now, amount |-> data.amount])]
               ELSE userTransactionCache

LimitsCheck ==
    \E data \in LimitsBodies :
        /\ answerLimitsCheck(data)
        /\ UNCHANGED userTransactionCache

\* time passes
Tick ==
    /\ lpc # "off"
    /\ now < MaxTime
    /\ now' = now + 1
    /\ UNCHANGED <<userTransactionCache, lpc, limitsData, limitsRes, rpc, reportData,
                   reportRes, completed, completedAtCheck, storeFault>>
    /\ UNCHANGED handlerVars
    /\ UNCHANGED combineVars

handlersOff ==
    /\ pc = "off"
    /\ req = NoRequest
    /\ internalCheck = NoVerdict
    /\ orcaReply = NoReply
    /\ orcaResult = NoVerdict
    /\ res = NoResponse
    /\ providerCalls = 0
    /\ cpc = "off"
    /\ cInternal = NoVerdict
    /\ cOrca = NoVerdict
    /\ cOut = NoVerdict
    /\ cSwapped = NoVerdict

InitLimits ==
    /\ handlersOff
    /\ userTransactionCache \in Caches
    /\ now = TicksPerDay
    /\ lpc = "idle"
    /\ limitsData = NoLimitsRequest
    /\ limitsRes = NoLimitsResponse
    /\ rpc = "off"
    /\ reportData = NoReport
    /\ reportRes = 0
    /\ completed = <<>>
    /\ completedAtCheck = 0
    /\ storeFault = FALSE

NextLimits ==
    \/ LimitsCheck
    \/ Tick

SpecLimits == InitLimits /\ [][NextLimits]_vars

----------------------------------------------------------------------------
(* POST /transaction/report, post.ts:101-139, beside POST /limits/check *)

ReportAmounts == {1000, 50000}

ReportBodies ==
    { [transactionId |-> t, checkId |-> c, finalStatus |-> f, actualAmount |-> a] :
        t \in {"", "u1_t1"}, c \in {"", "check_1"},
        f \in {"", "COMPLETED", "FAILED", "CANCELLED"}, a \in ReportAmounts }

\* post.ts:106: !transactionId || !checkId || !finalStatus
invalidReport(data) == data.transactionId = "" \/ data.checkId = "" \/ data.finalStatus = ""

\* post.ts:236: reportData.transactionId.split('_')[0]
reportUserId(transactionId) == IF transactionId = "u1_t1" THEN "u1" ELSE ""

\* post.ts:234-247: a log line for a COMPLETED report, nothing written
updateTransactionCache(cache, data) == cache

ReceiveReport ==
    /\ rpc = "idle"
    /\ Len(completed) < MaxCompleted
    /\ \E data \in ReportBodies :
        /\ reportData' = data
        /\ IF invalidReport(data)
             THEN rpc' = "answered" /\ reportRes' = 400
             ELSE rpc' = "reporting" /\ reportRes' = 0
    /\ UNCHANGED <<userTransactionCache, now, lpc, limitsData, limitsRes,
                   completed, completedAtCheck, storeFault>>
    /\ UNCHANGED handlerVars
    /\ UNCHANGED combineVars

\* orcaService.reportTransaction settles: resolved, or rejected with "Orca reporting failed"
ReportSettles ==
    /\ rpc = "reporting"
    /\ rpc' = "answered"
    /\ \E resolved \in BOOLEAN :
        IF resolved
          THEN /\ userTransactionCache' = updateTransactionCache(userTransactionCache, reportData)
               /\ reportRes' = 200
               /\ completed' = IF reportData.finalStatus = "COMPLETED"
                                 THEN Append(completed,
                                             [userId |-> reportUserId(reportData.transactionId),
                                              amount |-> reportData.actualAmount,
                                              at |-> now])
                                 ELSE completed
          ELSE /\ reportRes' = 500
               /\ UNCHANGED <<userTransactionCache, completed>>
    /\ UNCHANGED <<now, lpc, limitsData, limitsRes, reportData, completedAtCheck, storeFault>>
    /\ UNCHANGED handlerVars
    /\ UNCHANGED combineVars

NextReport ==
    /\ rpc = "answered"
    /\ rpc' = "idle"
    /\ reportData' = NoReport
    /\ reportRes' = 0
    /\ UNCHANGED <<userTransactionCache, now, lpc, limitsData, limitsRes,
                   completed, completedAtCheck, storeFault>>
    /\ UNCHANGED handlerVars
    /\ UNCHANGED combineVars

InitReport ==
    /\ handlersOff
    /\ userTransactionCache = emptyCache
    /\ now = TicksPerDay
    /\ lpc = "idle"
    /\ limitsData = NoLimitsRequest
    /\ limitsRes = NoLimitsResponse
    /\ rpc = "idle"
    /\ reportData = NoReport
    /\ reportRes = 0
    /\ completed = <<>>
    /\ completedAtCheck = 0
    /\ storeFault = FALSE

NextWithReports ==
    \/ LimitsCheck
    \/ ReceiveReport
    \/ ReportSettles
    \/ NextReport
    \/ Tick

SpecReport == InitReport /\ [][NextWithReports]_vars

----------------------------------------------------------------------------
(* POST /limits/check when checkTransactionLimits throws, pre.ts:357-366 *)

LimitsCheckThrows ==
    /\ lpc \in {"idle", "answered"}
    /\ lpc' = "answered"
    /\ \E data \in LimitsBodies :
        /\ ~invalidLimitsRequest(data)
        /\ limitsData' = data
    /\ limitsRes' = limitsErrorResponse
    /\ completedAtCheck' = Len(completed)
    /\ storeFault' = TRUE
    /\ UNCHANGED <<userTransactionCache, now, rpc, reportData, reportRes, completed>>
    /\ UNCHANGED handlerVars
    /\ UNCHANGED combineVars

NextStoreFault ==
    \/ LimitsCheck
    \/ LimitsCheckThrows
    \/ Tick

SpecStoreFault == InitLimits /\ [][NextStoreFault]_vars

----------------------------------------------------------------------------
(* The other entry points that answer POST /oapi/pre/transaction/check:    *)
(* index-working.ts:28-51 and the fallback route of index-fixed.ts:82-89   *)

simpleBlockAmount == 50000
simpleReviewAmount == 10000

\* index-working.ts:39 and index-fixed.ts:84
simpleDecision(body) ==
    IF amountExceeds(body, simpleBlockAmount) THEN "BLOCK"
    ELSE IF amountExceeds(body, simpleReviewAmount) THEN "REVIEW"
    ELSE "ALLOW"

\* index-working.ts:45
workingRiskScore(body) ==
    IF amountExceeds(body, simpleBlockAmount) THEN 95
    ELSE IF amountExceeds(body, simpleReviewAmount) THEN 75
    ELSE 25

\* index-working.ts:46
workingRiskLevel(body) ==
    IF amountExceeds(body, simpleBlockAmount) THEN "HIGH"
    ELSE IF amountExceeds(body, simpleReviewAmount) THEN "MEDIUM"
    ELSE "LOW"

\* index-working.ts:29-50
workingResponse(body) ==
    IF invalidRequest(body)
    THEN [code |-> 400, status |-> "ERROR",
          error |-> "transactionId, userId, and amount are required", data |-> NoVerdict]
    ELSE successResponse([NoVerdict EXCEPT !.decision = simpleDecision(body),
                                           !.riskScore = workingRiskScore(body),
                                           !.riskLevel = workingRiskLevel(body),
                                           !.checkId = "check"])

\* index-fixed.ts:83-88: no validation, every decision scored 25 / LOW
fixedFallbackResponse(body) ==
    successResponse([NoVerdict EXCEPT !.decision = simpleDecision(body),
                                      !.riskScore = 25,
                                      !.riskLevel = "LOW"])

\* index-working.ts serves the route
WorkingCheck ==
    /\ pc = "working"
    /\ \E body \in RequestBodies :
        /\ req' = body
        /\ res' = workingResponse(body)
    /\ pc' = "workingDone"
    /\ UNCHANGED <<internalCheck, orcaReply, orcaResult, providerCalls>>
    /\ UNCHANGED combineVars
    /\ UNCHANGED limitsVars

\* index-fixed.ts serves the route with its fallback, routes/pre having failed to load
FixedFallbackCheck ==
    /\ pc = "fixed"
    /\ \E body \in RequestBodies :
        /\ req' = body
        /\ res' = fixedFallbackResponse(body)
    /\ pc' = "fixedDone"
    /\ UNCHANGED <<internalCheck, orcaReply, orcaResult, providerCalls>>
    /\ UNCHANGED combineVars
    /\ UNCHANGED limitsVars

\* the response has been sent; the same application waits for the next request
NextSimpleRequest ==
    /\ pc \in {"workingDone", "fixedDone"}
    /\ pc' = IF pc = "workingDone" THEN "working" ELSE "fixed"
    /\ req' = NoRequest
    /\ res' = NoResponse
    /\ UNCHANGED <<internalCheck, orcaReply, orcaResult, providerCalls>>
    /\ UNCHANGED combineVars
    /\ UNCHANGED limitsVars

InitEntryPoints ==
    /\ pc \in {"working", "fixed"}
    /\ req = NoRequest
    /\ internalCheck = NoVerdict
    /\ orcaReply = NoReply
    /\ orcaResult = NoVerdict
    /\ res = NoResponse
    /\ providerCalls = 0
    /\ cpc = "off"
    /\ cInternal = NoVerdict
    /\ cOrca = NoVerdict
    /\ cOut = NoVerdict
    /\ cSwapped = NoVerdict
    /\ limitsOff

NextEntryPoints ==
    \/ WorkingCheck
    \/ FixedFallbackCheck
    \/ NextSimpleRequest

SpecEntryPoints == InitEntryPoints /\ [][NextEntryPoints]_vars


----------------------------------------------------------------------------
(* Vocabulary of the properties *)

\* ALLOW < REVIEW < BLOCK
restrictiveness(decision) ==
    CASE decision = "ALLOW" -> 1
      [] decision = "REVIEW" -> 2
      [] decision = "BLOCK" -> 3
      [] OTHER -> 0

\* LOW if score < 50, MEDIUM if 50 <= score < 80, HIGH if score >= 80
levelOfScore(score) ==
    CASE score < 50 -> "LOW"
      [] score >= 50 /\ score < 80 -> "MEDIUM"
      [] OTHER -> "HIGH"

\* the words of each reason text that occurs in the model
reasonWords(reason) ==
    CASE reason = AmountReason -> <<"Amount", "exceeds", "single", "transaction", "limit">>
      [] reason = VoucherReason -> <<"High-value", "voucher", "purchase", "requires", "review">>
      [] reason = UsdReason -> <<"High", "USD", "transaction", "requires", "review">>
      [] reason = FallbackReason ->
            <<"Orca", "service", "error", "-", "defaulting", "to", "allow">>
      [] reason = GenericRuleReason -> <<"Risk", "rule", "triggered">>
      [] reason = "service unavailable" -> <<"service", "unavailable">>
      [] OTHER -> <<reason>>

\* the reason text contains the word "unavailable"
mentionsUnavailable(reason) ==
    \E i \in 1..Len(reasonWords(reason)) : reasonWords(reason)[i] = "unavailable"

\* the handler has evaluated the local rules for req
locallyEvaluated == pc \in {"checkTransaction", "done"} /\ ~invalidRequest(req)

\* the handler has answered a valid request after calling checkTransaction
checkedWithOrca == pc = "done" /\ orcaReply.outcome # "none"

\* the handler answered with the local verdict without calling checkTransaction
shortCircuited == pc = "done" /\ res.code = 200 /\ orcaReply.outcome = "none"

\* the provider call failed, timed out, or returned data the normalizer cannot
\* process (a null body, a triggered field that is not a list, a null entry)
providerFailed ==
    \/ orcaReply.outcome \in {"error", "timeout"}
    \/ /\ orcaReply.outcome = "response"
       /\ \/ orcaReply.body = "null"
          \/ orcaReply.body = "object" /\ orcaReply.triggeredKind = "truthyNonList"
          \/ /\ orcaReply.body = "object"
             /\ orcaReply.triggeredKind = "list"
             /\ \E i \in 1..Len(orcaReply.triggered) : orcaReply.triggered[i].kind = "null"

\* the fixed score of a decision: BLOCK 100, REVIEW 75, ALLOW 25
categoricalScore(decision) ==
    CASE decision = "BLOCK" -> 100
      [] decision = "REVIEW" -> 75
      [] decision = "ALLOW" -> 25
      [] OTHER -> -1

\* one of the simple entry points has answered with a verdict
simplyAnswered == pc \in {"workingDone", "fixedDone"} /\ res.code = 200

\* the request being handled lacks transactionId, userId or amount
missingRequiredField ==
    pc \in {"testTransaction", "testUser", "testRules", "checkTransaction", "done"}
    /\ (req.transactionId = "" \/ req.userId = "" \/ ~req.hasAmount)

\* a valid request is being handled and has no response yet
awaitingAnswer ==
    pc \in {"testTransaction", "testUser", "testRules", "checkTransaction"}
    /\ ~invalidRequest(req)

\* a decision with all its parts
wellFormedDecision(verdict) ==
    /\ verdict.decision \in {"ALLOW", "REVIEW", "BLOCK"}
    /\ verdict.riskScore \in 0..100
    /\ verdict.riskLevel \in {"LOW", "MEDIUM", "HIGH"}
    /\ \A i \in 1..Len(verdict.reasons) : verdict.reasons[i] # Undefined

\* POST /limits/check has answered with a limits verdict
limitsAnswered == lpc = "answered" /\ limitsRes.code = 200

\* the recorded transactions of the user the last limits check asked about
entriesOfUser == userTransactionsOf(userTransactionCache, limitsData.userId)

\* the day a clock tick falls in
dayOf(at) == at \div TicksPerDay

\* positions of the user's entries recorded on or after the day of the last limits check
entriesOfToday ==
    { i \in DOMAIN entriesOfUser : dayOf(entriesOfUser[i].timestamp) >= dayOf(limitsRes.timestamp) }

RECURSIVE amountOver(_, _)
amountOver(positions, entries) ==
    IF positions = {} THEN 0
    ELSE LET i == CHOOSE x \in positions : TRUE
         IN  entries[i].amount + amountOver(positions \ {i}, entries)

\* positions of the completed reports for the user of the last limits check that
\* were answered before it, on its day
completedBeforeCheck ==
    { i \in 1..completedAtCheck :
        /\ completed[i].userId = limitsData.userId
        /\ dayOf(completed[i].at) = dayOf(limitsRes.timestamp) }

----------------------------------------------------------------------------
(* C1: every transaction whose amount is strictly greater than the         *)
(* single-transaction ceiling gets decision BLOCK from performInternalChecks, *)
(* whatever its provider and currency are. The code lets the voucher and   *)
(* USD rules overwrite BLOCK with REVIEW.                                  *)
C1_OverCeilingBlocks ==
    (locallyEvaluated /\ req.amount > singleTransactionLimit)
        => internalCheck.decision = "BLOCK"

(* C2: within one run of performInternalChecks the running decision only   *)
(* escalates: after each of the three rules it is at least as restrictive  *)
(* as before that rule. The code assigns REVIEW unconditionally.           *)
C2_DecisionOnlyEscalates ==
    locallyEvaluated =>
        /\ restrictiveness(initialChecks.decision)
             <= restrictiveness(afterAmountCheck(req).decision)
        /\ restrictiveness(afterAmountCheck(req).decision)
             <= restrictiveness(afterProviderCheck(req).decision)
        /\ restrictiveness(afterProviderCheck(req).decision)
             <= restrictiveness(afterCurrencyCheck(req).decision)


(* C3 (as stated): when the provider call fails, times out or returns data *)
(* that cannot be processed, checkTransaction returns ALLOW, score 0, LOW, *)
(* exactly one reason, that reason contains "unavailable", and a fallback  *)
(* check id.                                                               *)
C3_FallbackMentionsUnavailable ==
    (checkedWithOrca /\ providerFailed) =>
        /\ orcaResult.action = "ALLOW"
        /\ orcaResult.riskScore = 0
        /\ orcaResult.riskLevel = "LOW"
        /\ Len(orcaResult.reasons) = 1
        /\ mentionsUnavailable(orcaResult.reasons[1])
        /\ orcaResult.checkId = "fallback"

(* C3 (amended): when the provider call fails, times out or returns data   *)
(* that cannot be processed, checkTransaction returns ALLOW, score 0, LOW, *)
(* a fallback check id and exactly one reason, the text "Orca service      *)
(* error - defaulting to allow", which does not contain "unavailable".     *)
C3_FallbackVerdict ==
    (checkedWithOrca /\ providerFailed) =>
        /\ orcaResult.action = "ALLOW"
        /\ orcaResult.riskScore = 0
        /\ orcaResult.riskLevel = "LOW"
        /\ Len(orcaResult.reasons) = 1
        /\ orcaResult.reasons[1] = "Orca service error - defaulting to allow"
        /\ ~mentionsUnavailable(orcaResult.reasons[1])
        /\ orcaResult.checkId = "fallback"

C3_Witness ==
    /\ checkedWithOrca
    /\ orcaReply.outcome = "response"
    /\ orcaReply.body = "object"
    /\ orcaReply.recommendedAction = "BLOCK"
    /\ orcaReply.triggeredKind = "truthyNonList"
    /\ orcaResult.action = "ALLOW"
    /\ orcaResult.checkId = "fallback"

(* C4 (as stated): for every valid request, if the provider call fails or  *)
(* times out, the handler answers with decision ALLOW and a reason         *)
(* mentioning unavailability, never with an error response.                *)
C4_FailureAnswersAllow ==
    (checkedWithOrca /\ orcaReply.outcome \in {"error", "timeout"}) =>
        /\ res.code = 200
        /\ res.status = "SUCCESS"
        /\ res.data.decision = "ALLOW"
        /\ \E i \in 1..Len(res.data.reasons) : mentionsUnavailable(res.data.reasons[i])

(* C4 (amended): for every valid request, if the provider's transaction    *)
(* check fails or times out, the handler answers with a success response   *)
(* whose decision is the local rules' decision (ALLOW or REVIEW) and whose *)
(* last reason is "Orca service error - defaulting to allow", never with   *)
(* an error response.                                                      *)
C4_FailureAnswersLocalDecision ==
    (checkedWithOrca /\ orcaReply.outcome \in {"error", "timeout"}) =>
        /\ res.code = 200
        /\ res.status = "SUCCESS"
        /\ res.error = Undefined
        /\ res.data.decision = internalCheck.decision
        /\ res.data.decision \in {"ALLOW", "REVIEW"}
        /\ Len(res.data.reasons) >= 1
        /\ res.data.reasons[Len(res.data.reasons)] = "Orca service error - defaulting to allow"

C4_Witness ==
    /\ checkedWithOrca
    /\ orcaReply.outcome = "timeout"
    /\ res.code = 200
    /\ res.data.decision = "REVIEW"
    /\ Len(res.data.reasons) = 2

(* C9: whenever the handler returns early because the local verdict is     *)
(* BLOCK, the decision and riskScore it returns are BLOCK and 100 and      *)
(* equal what combineRiskAssessments gives for that local verdict and any  *)
(* verdict checkTransaction can return.                                    *)
C9_ShortCircuitEquivalence ==
    shortCircuited =>
        /\ res.data.decision = "BLOCK"
        /\ res.data.riskScore = 100
        /\ \A reply \in OrcaReplies :
             LET full == combineRiskAssessments(internalCheck, checkTransaction(reply)) IN
             /\ full.decision = res.data.decision
             /\ full.riskScore = res.data.riskScore

C9_Witness ==
    /\ shortCircuited
    /\ req.amount = 60000
    /\ res.data = internalCheck
    /\ orcaResult = NoVerdict

(* C10: for every provider response whose recommendedAction is missing or  *)
(* is not exactly "ALLOW", "REVIEW" or "BLOCK", checkTransaction returns   *)
(* action ALLOW with riskScore 0.                                          *)
C10_UnrecognizedActionAllows ==
    (/\ checkedWithOrca
     /\ orcaReply.outcome = "response"
     /\ \/ orcaReply.body # "object"
        \/ orcaReply.recommendedAction \notin {"ALLOW", "REVIEW", "BLOCK"})
        => (orcaResult.action = "ALLOW" /\ orcaResult.riskScore = 0)

C10_Witness ==
    /\ checkedWithOrca
    /\ orcaReply.outcome = "response"
    /\ orcaReply.body = "object"
    /\ orcaReply.recommendedAction = "Block"
    /\ orcaReply.triggeredKind = "list"
    /\ Len(orcaReply.triggered) = 1
    /\ orcaResult.status = "SUCCESS"
    /\ orcaResult.action = "ALLOW"
    /\ orcaResult.riskScore = 0


(* C5: for every local verdict and provider verdict with decisions in      *)
(* {ALLOW, REVIEW, BLOCK}, the combined decision is the more restrictive   *)
(* of the two: one of the inputs, and not less restrictive than either.    *)
C5_CombinedDecisionIsMax ==
    cpc = "done" =>
        /\ cOut.decision \in {cInternal.decision, cOrca.action}
        /\ restrictiveness(cOut.decision) >= restrictiveness(cInternal.decision)
        /\ restrictiveness(cOut.decision) >= restrictiveness(cOrca.action)

C5_Witness ==
    /\ cpc = "done"
    /\ cInternal.decision = "REVIEW"
    /\ cOrca.action = "ALLOW"
    /\ cOut.decision = "REVIEW"

(* C6: the combined riskScore is the larger of the two input scores, and   *)
(* the combined riskLevel is HIGH / MEDIUM / LOW by that score (>= 80,     *)
(* 50..79, < 50), whatever riskLevel the inputs carry.                     *)
C6_CombinedScoreAndLevel ==
    cpc = "done" =>
        /\ cOut.riskScore \in {cInternal.riskScore, cOrca.riskScore}
        /\ cOut.riskScore >= cInternal.riskScore
        /\ cOut.riskScore >= cOrca.riskScore
        /\ cOut.riskLevel = levelOfScore(cOut.riskScore)

C6_Witness ==
    /\ cpc = "done"
    /\ cInternal.riskScore = 80
    /\ cInternal.riskLevel = "LOW"
    /\ cOrca.riskScore = 79
    /\ cOrca.riskLevel = "LOW"
    /\ cOut.riskLevel = "HIGH"

(* C7: the combined reasons are the local reasons followed by the provider *)
(* reasons, each in its own order, nothing dropped, duplicates kept.       *)
C7_ReasonsConcatenated ==
    cpc = "done" =>
        /\ Len(cOut.reasons) = Len(cInternal.reasons) + Len(cOrca.reasons)
        /\ \A i \in 1..Len(cInternal.reasons) : cOut.reasons[i] = cInternal.reasons[i]
        /\ \A j \in 1..Len(cOrca.reasons) :
             cOut.reasons[Len(cInternal.reasons) + j] = cOrca.reasons[j]

C7_Witness ==
    /\ cpc = "done"
    /\ cInternal.reasons = <<AmountReason, "velocity">>
    /\ cOrca.reasons = <<"velocity", AmountReason>>
    /\ Len(cOut.reasons) = 4
    /\ cOut.reasons[2] = cOut.reasons[3]

(* C8: combining (v1, v2) and (v2, v1) gives the same decision and the     *)
(* same riskScore. The code reads the first argument's `decision` and the  *)
(* second argument's `action`, so the swapped call finds neither.          *)
C8_CommutativeDecisionAndScore ==
    cpc = "done" =>
        /\ cOut.decision = cSwapped.decision
        /\ cOut.riskScore = cSwapped.riskScore


C12_NormalizationTotal ==
    (checkedWithOrca /\ orcaReply.outcome = "response") =>
        /\ orcaResult.status \in {"SUCCESS", "ERROR"}
        /\ orcaResult.action \in {"ALLOW", "REVIEW", "BLOCK"}
        /\ res.code = 200

C12_Witness ==
    /\ checkedWithOrca
    /\ orcaReply.outcome = "response"
    /\ orcaReply.body = "object"
    /\ orcaReply.recommendedAction = "REVIEW"
    /\ orcaReply.triggeredKind = "list"
    /\ Len(orcaReply.triggered) = 2
    /\ orcaReply.triggered[1].kind = "string"
    /\ orcaReply.triggered[2].kind = "null"
    /\ orcaResult.action = "ALLOW"
    /\ res.code = 200


(* C13: normalization is idempotent: feeding a verdict produced by the     *)
(* normalizer back through the normalizer yields the same decision,        *)
(* riskScore and riskLevel. The code looks for recommendedAction, which a  *)
(* verdict does not have, and answers ALLOW / 0 / LOW.                     *)
C13_NormalizationIdempotent ==
    (checkedWithOrca /\ orcaReply.outcome = "response") =>
        LET again == checkTransaction(verdictAsReply(orcaResult)) IN
        /\ again.action = orcaResult.action
        /\ again.riskScore = orcaResult.riskScore
        /\ again.riskLevel = orcaResult.riskLevel

(* C20: for every transaction with amount <= the single-transaction        *)
(* ceiling that is neither a voucher transaction nor in USD,               *)
(* performInternalChecks returns ALLOW with riskScore 25 and no reasons.   *)
C20_PlainTransactionAllowed ==
    (/\ locallyEvaluated
     /\ req.amount <= singleTransactionLimit
     /\ req.provider # "voucher"
     /\ req.currencyCode # "USD")
        => /\ internalCheck.decision = "ALLOW"
           /\ internalCheck.riskScore = 25
           /\ internalCheck.reasons = <<>>

C20_Witness ==
    /\ locallyEvaluated
    /\ req.amount = singleTransactionLimit
    /\ req.provider = "mpesa"
    /\ req.currencyCode = "KES"
    /\ internalCheck.decision = "ALLOW"
    /\ internalCheck.riskScore = 25


(* C14: a limits check answers withinLimits exactly when the user's        *)
(* amount recorded today plus the requested amount is at most the daily    *)
(* ceiling, the number of entries recorded today is below the count        *)
(* ceiling, and the requested amount is at most the single-transaction     *)
(* ceiling; entries recorded before today count towards neither figure.    *)
C14_WithinLimitsFormula ==
    limitsAnswered =>
        LET used == amountOver(entriesOfToday, entriesOfUser)
            count == Cardinality(entriesOfToday)
        IN  /\ limitsRes.dailyUsed = used
            /\ limitsRes.transactionCount = count
            /\ limitsRes.withinLimits <=>
                 (/\ used + limitsData.amount <= dailyTransactionLimit
                  /\ count < hourlyTransactionCount
                  /\ limitsData.amount <= singleTransactionLimit)

C14_Witness ==
    /\ limitsAnswered
    /\ Len(entriesOfUser) > limitsRes.transactionCount
    /\ limitsRes.transactionCount = 2
    /\ limitsRes.dailyUsed = dailyTransactionLimit
    /\ limitsData.amount = 1000
    /\ ~limitsRes.withinLimits

(* C15: the decision of a limits check is ALLOW when withinLimits is true  *)
(* and BLOCK when it is false, and is never REVIEW.                        *)
C15_LimitsDecisionBinary ==
    limitsAnswered =>
        /\ limitsRes.decision \in {"ALLOW", "BLOCK"}
        /\ limitsRes.decision = "ALLOW" <=> limitsRes.withinLimits

C15_Witness ==
    /\ limitsAnswered
    /\ limitsRes.decision = "BLOCK"
    /\ limitsRes.transactionCount = hourlyTransactionCount
    /\ limitsRes.dailyUsed + limitsData.amount <= dailyTransactionLimit
    /\ limitsData.amount \in 1..singleTransactionLimit

(* C16: a limits check leaves every user's recorded transactions as they   *)
(* were, and the same check repeated at the same time answers the same     *)
(* figures.                                                                *)
C16_ChecksLeaveStoreUnchanged ==
    [][/\ userTransactionCache' = userTransactionCache
       /\ (/\ limitsAnswered
           /\ limitsAnswered'
           /\ limitsData' = limitsData
           /\ limitsRes'.timestamp = limitsRes.timestamp)
            => limitsRes' = limitsRes]_vars

C16_Witness ==
    /\ limitsAnswered
    /\ limitsRes.withinLimits
    /\ limitsRes.transactionCount > 0
    /\ limitsData.amount > 0

(* C17: a transaction reported with final status COMPLETED is among the    *)
(* user's entries counted by a later limits check on the same day.         *)
C17_CompletedReportsCounted ==
    limitsAnswered =>
        /\ limitsRes.transactionCount = Cardinality(completedBeforeCheck)
        /\ limitsRes.dailyUsed = amountOver(completedBeforeCheck, completed)

(* C18: when a transaction of a user has completed and a second one of the *)
(* same user is checked on the same day, and the two amounts together      *)
(* exceed the daily ceiling, the second check sees the first amount as     *)
(* used and does not admit the second.                                     *)
C18_SecondCheckSeesFirst ==
    limitsAnswered =>
        \A i \in completedBeforeCheck :
            completed[i].amount + limitsData.amount > dailyTransactionLimit
                => /\ ~limitsRes.withinLimits
                   /\ limitsRes.dailyUsed >= completed[i].amount

C21_FixedCategoricalScore ==
    simplyAnswered => res.data.riskScore = categoricalScore(res.data.decision)

(* C22: in the local verdict, the normalized provider verdict, the        *)
(* provider-failure fallback verdict and the combined decision alike,     *)
(* riskScore lies in 0..100 and riskLevel is LOW below 50, MEDIUM from 50 *)
(* and below 80, HIGH from 80.                                            *)
C22_LevelIsFunctionOfScore ==
    LET consistent(verdict) ==
            /\ verdict.riskScore \in 0..100
            /\ verdict.riskLevel = levelOfScore(verdict.riskScore)
    IN  /\ locallyEvaluated => consistent(internalCheck)
        /\ checkedWithOrca => consistent(orcaResult)
        /\ (pc = "done" /\ res.code = 200) => consistent(res.data)

C22_Witness ==
    /\ checkedWithOrca
    /\ ~providerFailed
    /\ internalCheck.riskLevel = "MEDIUM"
    /\ orcaResult.riskLevel = "HIGH"
    /\ res.data.riskScore = 95
    /\ res.data.riskLevel = "HIGH"

(* C23: a transaction-check request without transactionId, userId or     *)
(* amount never reaches performInternalChecks or checkTransaction and is  *)
(* answered with the INVALID_REQUEST error, which carries no verdict.     *)
C23_InvalidRequestRejected ==
    missingRequiredField =>
        /\ internalCheck = NoVerdict
        /\ pc # "checkTransaction"
        /\ orcaReply.outcome = "none"
        /\ orcaResult = NoVerdict
        /\ pc = "done" =>
            /\ res.code = 400
            /\ res.error = "INVALID_REQUEST"
            /\ res.data.decision = Undefined

C23_Witness ==
    /\ pc = "done"
    /\ req.transactionId = "txn_1"
    /\ req.userId = "user_1"
    /\ ~req.hasAmount
    /\ res.code = 400
    /\ res.error = "INVALID_REQUEST"

(* C24: every valid transaction-check request is eventually answered,    *)
(* whatever the provider does at each of the calls made for it; the       *)
(* answer is a well-formed decision, and once written it is the only one  *)
(* for that request.                                                      *)
C24_ValidRequestAnswered ==
    /\ awaitingAnswer ~> pc = "done"
    /\ [](pc = "done" /\ ~invalidRequest(req)
            => res.code = 200 /\ wellFormedDecision(res.data))
    /\ [][res # NoResponse => res' \in {res, NoResponse}]_vars

C24_Witness ==
    /\ pc = "done"
    /\ ~invalidRequest(req)
    /\ providerCalls = 4
    /\ orcaReply.outcome = "timeout"
    /\ res.code = 200
    /\ res.data.decision = "REVIEW"

(* C25: an evaluation whose local rules yield BLOCK sends no request to   *)
(* the provider; any evaluation sends at most one, and only after the     *)
(* local evaluation.                                                      *)
C25_ShortCircuitSkipsProvider ==
    /\ (locallyEvaluated /\ internalCheck.decision = "BLOCK") => providerCalls = 0
    /\ providerCalls <= 1
    /\ providerCalls > 0 => locallyEvaluated

(* C26: no transaction check ends in a combined decision without the      *)
(* limits of the request's user having been checked between the local     *)
(* evaluation and the provider call.                                      *)
C26_LimitsCheckedBeforeCombining ==
    (checkedWithOrca /\ res.code = 200) =>
        /\ limitsRes.code = 200
        /\ limitsData.userId = req.userId
        /\ limitsData.amount = req.amount

(* C27: whenever the provider's response carries recommendedAction BLOCK, *)
(* the final decision of the transaction check is BLOCK, whatever the     *)
(* rest of the payload is.                                                *)
C27_ProviderBlockKept ==
    (/\ checkedWithOrca
     /\ orcaReply.outcome = "response"
     /\ orcaReply.body = "object"
     /\ orcaReply.recommendedAction = "BLOCK")
        => res.data.decision = "BLOCK"

(* C28: every transaction that reaches performInternalChecks has an       *)
(* amount above zero and a transaction id and a user id that are not      *)
(* empty.                                                                 *)
C28_EvaluatedAmountPositive ==
    (pc \in {"checkTransaction", "done"} /\ internalCheck # NoVerdict) =>
        /\ req.hasAmount
        /\ req.amount > 0
        /\ req.transactionId # ""
        /\ req.userId # ""

(* C29: in a transaction check that is not short-circuited and whose     *)
(* provider call fails, the final decision and riskScore are those of the *)
(* local verdict, and the final reasons are the local reasons followed by *)
(* exactly one fallback reason.                                           *)
C29_FailureKeepsLocalOpinion ==
    (checkedWithOrca /\ providerFailed) =>
        /\ res.data.decision = internalCheck.decision
        /\ res.data.riskScore = internalCheck.riskScore
        /\ Len(res.data.reasons) = Len(internalCheck.reasons) + 1
        /\ SubSeq(res.data.reasons, 1, Len(internalCheck.reasons)) = internalCheck.reasons
        /\ res.data.reasons[Len(res.data.reasons)] = FallbackReason

C29_Witness ==
    /\ checkedWithOrca
    /\ orcaReply.outcome = "error"
    /\ internalCheck.decision = "REVIEW"
    /\ Len(internalCheck.reasons) = 2
    /\ res.data.riskScore = 75
    /\ Len(res.data.reasons) = 3

(* C30: in every response of the transaction check that carries a        *)
(* decision, the decision is BLOCK exactly when riskLevel is HIGH, REVIEW *)
(* exactly when it is MEDIUM, and ALLOW exactly when it is LOW.           *)
C30_DecisionMatchesLevel ==
    (pc = "done" /\ res.code = 200) =>
        /\ res.data.decision = "BLOCK" <=> res.data.riskLevel = "HIGH"
        /\ res.data.decision = "REVIEW" <=> res.data.riskLevel = "MEDIUM"
        /\ res.data.decision = "ALLOW" <=> res.data.riskLevel = "LOW"

C30_Witness ==
    /\ checkedWithOrca
    /\ internalCheck.decision = "ALLOW"
    /\ orcaResult.action = "REVIEW"
    /\ res.data.decision = "REVIEW"
    /\ res.data.riskScore = 60
    /\ res.data.riskLevel = "MEDIUM"

====
